---- MODULE Spec2Model ----
(***************************************************************************)
(* A model of src/simulation.py: class MovingAgentSimulation, a disease     *)
(* spreading on a grid of cells whose states also swap between neighbours.  *)
(*                                                                          *)
(* Probabilities are rationals k/One.  A draw of np.random.rand() is a      *)
(* value of [0, 1), so a draw is k/One with k in 0..One-1; a rate is k/One  *)
(* with k in 0..One.  Comparisons between draws and rates are comparisons   *)
(* of the numerators.                                                       *)
(***************************************************************************)
EXTENDS Integers, Sequences, FiniteSets, TLC

VARIABLES size, infect, symptom, recover, moving, map, n, ret, calls

vars == <<size, infect, symptom, recover, moving, map, n, ret, calls>>
params == <<size, infect, symptom, recover, moving>>

----------------------------------------------------------------------------
(* Bounds of the model *)

\* the largest number of cells of a grid
MaxCells == 3
\* the largest number of step calls of a behaviour
MaxSteps == 2
\* the largest number of step calls of a behaviour that only steps
MaxBurnSteps == 6

\* the numerators of the draws of np.random.rand(): 0 and 1/2
Draws == {0, 1}
\* the numerator of probability 1
One == Cardinality(Draws)
\* the rates a simulation is constructed with: 0 and 1
Rates == {0, One}
\* the moving rates a simulation is constructed with: 0 and 1/2
MoveRates == {0, 1}
\* the ratios initialize is called with: 0, 1/2 and 1
Ratios == 0..One
\* the grid sizes (nx, ny) a simulation is constructed with: the grids of up
\* to MaxCells cells, and the square of side 2
Sizes == {s \in (1..MaxCells) \X (1..MaxCells) : s[1] * s[2] <= MaxCells} \cup {<<2, 2>>}

----------------------------------------------------------------------------
(* The state values *)

SUSCEPTIBLE == 1
LATENT == 2
INFECTED == 3
RECOVER == 4

States == {SUSCEPTIBLE, LATENT, INFECTED, RECOVER}

----------------------------------------------------------------------------
(* Helpers: numpy's index order *)

\* the indices (x, y) of an array of shape sz
Cells(sz) == (0..(sz[1] - 1)) \X (0..(sz[2] - 1))

\* the indices of an array of shape sz in numpy's (row-major) order
RowMajor(sz) == [i \in 1..(sz[1] * sz[2]) |-> <<(i - 1) \div sz[2], (i - 1) % sz[2]>>]

\* list(zip(*np.where(m == s))): the cells holding s, in row-major order
np_where(m, s) == SelectSeq(RowMajor(size), LAMBDA xy : m[xy] = s)

ToSet(seq) == {seq[i] : i \in 1..Len(seq)}

Max(a, b) == IF a >= b THEN a ELSE b
Min(a, b) == IF a <= b THEN a ELSE b

----------------------------------------------------------------------------
(* step: the three phases.  Each phase lists its cells with np.where before *)
(* its loop, draws one value per listed cell (r[xy] is the draw zipped with  *)
(* cell xy) and then writes into self.map cell by cell.                      *)

\* recover_cell with the state written one too low: the cell falls back
recover_cell_regress(m, xy, r) ==
    IF r[xy] <= recover THEN [m EXCEPT ![xy] = INFECTED - 1] ELSE m

\* recover_cell deciding with the symptom rate instead of the recover rate
recover_cell_symptom(m, xy, r) ==
    IF r[xy] <= symptom THEN [m EXCEPT ![xy] = RECOVER] ELSE m

\* lines 55-56: the body of the recovery loop, for the cell xy
recover_cell(m, xy, r) ==
    IF r[xy] <= recover THEN [m EXCEPT ![xy] = RECOVER] ELSE m

\* lines 54-56: the recovery loop over the cells `cells`
RECURSIVE recover_loop(_, _, _)
recover_loop(m, cells, r) ==
    IF cells = <<>> THEN m
    ELSE recover_loop(recover_cell(m, Head(cells), r), Tail(cells), r)

\* lines 63-64: the body of the symptom loop, for the cell xy
symptom_cell(m, xy, r) ==
    IF r[xy] <= symptom THEN [m EXCEPT ![xy] = INFECTED] ELSE m

\* lines 62-64: the symptom loop over the cells `cells`
RECURSIVE symptom_loop(_, _, _)
symptom_loop(m, cells, r) ==
    IF cells = <<>> THEN m
    ELSE symptom_loop(symptom_cell(m, Head(cells), r), Tail(cells), r)

\* has_infected_neighbor comparing with >=: every cell has such a neighbour
has_infected_neighbor_ge(m, xy) ==
    LET x == xy[1]
        y == xy[2]
    IN \/ m[<<Max(x - 1, 0), y>>] >= SUSCEPTIBLE
       \/ m[<<Min(x + 1, size[1] - 1), y>>] >= SUSCEPTIBLE
       \/ m[<<x, Max(y - 1, 0)>>] >= SUSCEPTIBLE
       \/ m[<<x, Min(y + 1, size[2] - 1)>>] >= SUSCEPTIBLE

\* has_infected_neighbor counting only LATENT and INFECTED neighbours
has_infected_neighbor_contagious(m, xy) ==
    LET x == xy[1]
        y == xy[2]
        contagious == {LATENT, INFECTED}
    IN \/ m[<<Max(x - 1, 0), y>>] \in contagious
       \/ m[<<Min(x + 1, size[1] - 1), y>>] \in contagious
       \/ m[<<x, Max(y - 1, 0)>>] \in contagious
       \/ m[<<x, Min(y + 1, size[2] - 1)>>] \in contagious

\* has_infected_neighbor without max and min: the index wraps around the edge
has_infected_neighbor_wrap(m, xy) ==
    LET x == xy[1]
        y == xy[2]
    IN \/ m[<<(x - 1) % size[1], y>>] > SUSCEPTIBLE
       \/ m[<<(x + 1) % size[1], y>>] > SUSCEPTIBLE
       \/ m[<<x, (y - 1) % size[2]>>] > SUSCEPTIBLE
       \/ m[<<x, (y + 1) % size[2]>>] > SUSCEPTIBLE

\* lines 74-77: has xy a neighbour above SUSCEPTIBLE in the grid m as it is now
has_infected_neighbor(m, xy) ==
    LET x == xy[1]
        y == xy[2]
    IN \/ m[<<Max(x - 1, 0), y>>] > SUSCEPTIBLE
       \/ m[<<Min(x + 1, size[1] - 1), y>>] > SUSCEPTIBLE
       \/ m[<<x, Max(y - 1, 0)>>] > SUSCEPTIBLE
       \/ m[<<x, Min(y + 1, size[2] - 1)>>] > SUSCEPTIBLE

\* lines 71-78: the body of the infection loop, for the cell xy; the
\* neighbours are read from the grid the loop is writing into
infect_cell(m, xy, r) ==
    IF r[xy] <= infect /\ has_infected_neighbor(m, xy)
    THEN [m EXCEPT ![xy] = LATENT] ELSE m

\* lines 70-78: the infection loop over the cells `cells`
RECURSIVE infect_loop(_, _, _)
infect_loop(m, cells, r) ==
    IF cells = <<>> THEN m
    ELSE infect_loop(infect_cell(m, Head(cells), r), Tail(cells), r)

\* lines 50-56
recover_phase(m, r) == recover_loop(m, np_where(m, INFECTED), r)
\* lines 58-64
symptom_phase(m, r) == symptom_loop(m, np_where(m, LATENT), r)
\* lines 66-78
infect_phase(m, r) == infect_loop(m, np_where(m, SUSCEPTIBLE), r)

\* np.random.rand(len(cells)): one draw for each listed cell
RandFor(cells) == [ToSet(cells) -> Draws]

\* lines 50-56: the grids the recovery phase can leave, over all draws
RecoverResults(m) == {recover_phase(m, r) : r \in RandFor(np_where(m, INFECTED))}
\* lines 58-64: the grids the symptom phase can leave, over all draws
SymptomResults(m) == {symptom_phase(m, r) : r \in RandFor(np_where(m, LATENT))}
\* lines 66-78: the grids the infection phase can leave, over all draws
InfectResults(m) == {infect_phase(m, r) : r \in RandFor(np_where(m, SUSCEPTIBLE))}

\* TransitionResults with the symptom phase run before the recovery phase
TransitionResults_symptom_first(m) ==
    UNION {UNION {InfectResults(m2) : m2 \in RecoverResults(m1)} : m1 \in SymptomResults(m)}

\* lines 50-78: the grids the three phases, run in this order, can leave
TransitionResults(m) ==
    UNION {UNION {InfectResults(m2) : m2 \in SymptomResults(m1)} : m1 \in RecoverResults(m)}

----------------------------------------------------------------------------
(* exchange *)

\* line 92: n = int(self.moving * self.size[0] * self.size[1]); int rounds
\* towards zero
NumAttempts ==
    LET p == moving * size[1] * size[2]
    IN IF p >= 0 THEN p \div One ELSE 0 - ((0 - p) \div One)

\* lines 93-95: what one position of the arrays xs, ys, direction can hold
AttemptDraws == (0..(size[1] - 1)) \X (0..(size[2] - 1)) \X (0..3)

\* attempt without temp: the second assignment reads the source cell after it
\* was overwritten
attempt_no_temp(m, x, y, d) ==
    LET skip == \/ d = 0 /\ x = 0
                \/ d = 1 /\ x = size[1] - 1
                \/ d = 2 /\ y = 0
                \/ d \notin {0, 1, 2} /\ y = size[2] - 1
        x2 == IF d = 0 THEN x - 1 ELSE IF d = 1 THEN x + 1 ELSE x
        y2 == IF d = 2 THEN y - 1 ELSE IF d \notin {0, 1, 2} THEN y + 1 ELSE y
    IN IF skip THEN m
       ELSE [m EXCEPT ![<<x, y>>] = m[<<x2, y2>>]]

\* attempt where a move off the grid empties the source cell instead of being
\* skipped
attempt_leaves(m, x, y, d) ==
    LET off == \/ d = 0 /\ x = 0
               \/ d = 1 /\ x = size[1] - 1
               \/ d = 2 /\ y = 0
               \/ d \notin {0, 1, 2} /\ y = size[2] - 1
        x2 == IF d = 0 THEN x - 1 ELSE IF d = 1 THEN x + 1 ELSE x
        y2 == IF d = 2 THEN y - 1 ELSE IF d \notin {0, 1, 2} THEN y + 1 ELSE y
        temp == m[<<x, y>>]
    IN IF off THEN [m EXCEPT ![<<x, y>>] = SUSCEPTIBLE]
       ELSE [[m EXCEPT ![<<x, y>>] = m[<<x2, y2>>]] EXCEPT ![<<x2, y2>>] = temp]

\* lines 97-117: one pass of the loop body, for the attempt (x, y, d)
attempt(m, x, y, d) ==
    LET skip == \/ d = 0 /\ x = 0
                \/ d = 1 /\ x = size[1] - 1
                \/ d = 2 /\ y = 0
                \/ d \notin {0, 1, 2} /\ y = size[2] - 1
        x2 == IF d = 0 THEN x - 1 ELSE IF d = 1 THEN x + 1 ELSE x
        y2 == IF d = 2 THEN y - 1 ELSE IF d \notin {0, 1, 2} THEN y + 1 ELSE y
        temp == m[<<x, y>>]
    IN IF skip THEN m
       ELSE [[m EXCEPT ![<<x, y>>] = m[<<x2, y2>>]] EXCEPT ![<<x2, y2>>] = temp]

\* lines 96-117: the loop: the grids that k more passes can leave, from a grid
\* of `grids`, over all draws
RECURSIVE exchange_loop(_, _)
exchange_loop(grids, k) ==
    IF k = 0 THEN grids
    ELSE exchange_loop({attempt(m, a[1], a[2], a[3]) : m \in grids, a \in AttemptDraws},
                       k - 1)

\* lines 88-117: the grids exchange can leave, over all draws
exchange(m) == exchange_loop({m}, NumAttempts)

\* MoveResults without the guard and with a loop that runs once more
MoveResults_unguarded(m) == exchange_loop({m}, NumAttempts + 1)

\* lines 80-82: exchange is called only when moving > 0
MoveResults(m) == IF moving > 0 THEN exchange(m) ELSE {m}

----------------------------------------------------------------------------
(* The operations *)

\* initial_map built with np.zeros
initial_map_zeros(sz) == [xy \in Cells(sz) |-> 0]

\* line 33: np.ones(size) * self.SUSCEPTIBLE
initial_map(sz) == [xy \in Cells(sz) |-> SUSCEPTIBLE]

\* __init__, lines 27-35, with valid parameters
Init ==
    /\ size \in Sizes
    /\ infect \in Rates
    /\ symptom \in Rates
    /\ recover \in Rates
    /\ moving \in MoveRates
    /\ map = initial_map(size)
    /\ n = 0
    /\ ret = <<>>
    /\ calls = 0

\* seeded with the draw compared by <=, as step compares its draws
seeded_le(m, ratio, state, rand) ==
    [xy \in Cells(size) |-> IF rand[xy] <= ratio THEN state ELSE m[xy]]

\* lines 42-43: the grid after initialize(ratio, state) with the draws rand:
\* every cell whose draw is below ratio gets state
seeded(m, ratio, state, rand) ==
    [xy \in Cells(size) |-> IF rand[xy] < ratio THEN state ELSE m[xy]]

\* the grids initialize can leave, for a state of `states`, over all draws
InitializeResults(m, states) ==
    {seeded(m, ratio, state, rand) :
        ratio \in Ratios, state \in states, rand \in [Cells(size) -> Draws]}

\* initialize that also resets the step counter
initialize_resets(states) ==
    /\ map' \in InitializeResults(map, states)
    /\ ret' = <<>>
    /\ n' = 0
    /\ UNCHANGED <<params, calls>>

\* initialize(ratio, state), lines 37-43, for a state of `states`; it returns
\* nothing
initialize(states) ==
    /\ map' \in InitializeResults(map, states)
    /\ ret' = <<>>
    /\ UNCHANGED <<params, n, calls>>

\* step(), lines 50-86, while fewer than `limit` steps were made; it returns
\* (self.n, self.map), where the grid is self.map itself; ret keeps the number
step_within(limit) ==
    /\ n < limit
    /\ \E t \in TransitionResults(map) :
         \E m \in MoveResults(t) : map' = m
    /\ n' = n + 1
    /\ ret' = <<n'>>
    /\ calls' = calls + 1
    /\ UNCHANGED params

\* step(), lines 45-86
step == step_within(MaxSteps)

\* get_state(), lines 119-121
get_state ==
    /\ ret' = <<n>>
    /\ UNCHANGED <<params, map, n, calls>>

Next == initialize(States) \/ step \/ get_state

Spec == Init /\ [][Next]_vars

\* the simulations constructed with moving = 0
InitStill == Init /\ moving = 0

SpecStill == InitStill /\ [][Next]_vars

\* the simulations on a 1x1 grid constructed with moving > 0: 1/2 and 1
Init1x1 ==
    /\ size = <<1, 1>>
    /\ infect \in Rates
    /\ symptom \in Rates
    /\ recover \in Rates
    /\ moving \in 1..One
    /\ map = initial_map(size)
    /\ n = 0
    /\ ret = <<>>
    /\ calls = 0

Spec1x1 == Init1x1 /\ [][Next]_vars

\* the 3x3 scenario: all SUSCEPTIBLE but the centre, seeded INFECTED;
\* infect = 1, symptom = recover = moving = 0
Centre == <<1, 1>>
Init3x3 ==
    /\ size = <<3, 3>>
    /\ infect = One
    /\ symptom = 0
    /\ recover = 0
    /\ moving = 0
    /\ map = [initial_map(size) EXCEPT ![Centre] = INFECTED]
    /\ n = 0
    /\ ret = <<>>
    /\ calls = 0

\* the scenario is stepped and read, never seeded again
Next3x3 == step \/ get_state

Spec3x3 == Init3x3 /\ [][Next3x3]_vars

\* the simulations constructed with infect = symptom = recover = 1 and
\* moving = 0, seeded to any grid that is not all SUSCEPTIBLE
InitBurn ==
    /\ size \in Sizes
    /\ infect = One
    /\ symptom = One
    /\ recover = One
    /\ moving = 0
    /\ map \in [Cells(size) -> States]
    /\ \E xy \in Cells(size) : map[xy] # SUSCEPTIBLE
    /\ n = 0
    /\ ret = <<>>
    /\ calls = 0

\* the driver only calls step, and reads the state
NextBurn == step_within(MaxBurnSteps) \/ get_state

\* the driver keeps calling step
SpecBurn == InitBurn /\ [][NextBurn]_vars /\ WF_vars(step_within(MaxBurnSteps))

\* lines 86 and 121: the grid of the returned tuple is self.map itself, not a
\* copy, so the caller of step or get_state who assigns grid[xy] = state to
\* the grid it was handed assigns to self.map
caller_write ==
    /\ ret # <<>>
    /\ \E xy \in Cells(size), state \in States : map' = [map EXCEPT ![xy] = state]
    /\ UNCHANGED <<params, n, ret, calls>>

\* a simulation and a caller that writes into the grids it is handed
NextAlias == Next \/ caller_write

SpecAlias == Init /\ [][NextAlias]_vars

\* the values initialize is called with as state when the caller is not held
\* to the four states: the four states, the value below and the value above
SeedValues == (SUSCEPTIBLE - 1)..(RECOVER + 1)

\* the simulations of at most two cells
InitSmall == Init /\ size[1] * size[2] <= 2

\* initialize(ratio, state) takes any value as state: lines 42-43 check nothing
NextAnySeed == initialize(SeedValues) \/ step \/ get_state

SpecAnySeed == InitSmall /\ [][NextAnySeed]_vars

\* the rates __init__ is called with when the caller is not held to [0, 1]:
\* the rates above, -1/2 and 3/2
AnyRates == Rates \cup {0 - 1, One + 1}
AnyMoveRates == MoveRates \cup {0 - 1, One + 1}

\* __init__, lines 27-35, stores whatever it is given: the simulations of at
\* most two cells constructed with any of these rates
InitAnyParams ==
    /\ size \in {sz \in Sizes : sz[1] * sz[2] <= 2}
    /\ infect \in AnyRates
    /\ symptom \in AnyRates
    /\ recover \in AnyRates
    /\ moving \in AnyMoveRates
    /\ map = initial_map(size)
    /\ n = 0
    /\ ret = <<>>
    /\ calls = 0

SpecAnyParams == InitAnyParams /\ [][Next]_vars

----------------------------------------------------------------------------
(* Properties *)

\* a step call has completed in this transition: only step changes n
StepDone == n' = n + 1

\* the number of cells of m holding s
Count(m, s) == Cardinality({xy \in Cells(size) : m[xy] = s})

\* the states present in the grid
Present == {map[xy] : xy \in Cells(size)}

\* C1: in every state after construction, initialize (with a valid state)
\* and step, the grid has exactly the cells of its size and every cell holds
\* one of the four states.
C1_StateClosure ==
    /\ DOMAIN map = Cells(size)
    /\ \A xy \in Cells(size) : map[xy] \in States

\* a grid holding all four states after a step
C1_Witness == n >= 1 /\ ret = <<n>> /\ Present = States

\* C2: the counter is the number of completed step calls (0 after
\* construction, one more per step, untouched by initialize and get_state), and
\* a number returned by step or get_state is the counter.
C2_Counter ==
    /\ n = calls
    /\ n \in 0..MaxSteps
    /\ ret # <<>> => ret = <<n>>

\* two steps done, the second returned 2, then the grid was seeded again
C2_Witness == calls = 2 /\ n = 2 /\ ret = <<>>

\* C3 as stated: across a step no cell goes to a lower state, whatever moving
C3_NoRegression == [][StepDone => \A xy \in Cells(size) : map'[xy] >= map[xy]]_vars

\* C3, amended: across a step in which exchange makes no attempt
\* (int(moving * nx * ny) = 0), no cell goes to a lower state.
C3_NoRegressionUnmoved ==
    [][StepDone /\ NumAttempts = 0 => \A xy \in Cells(size) : map'[xy] >= map[xy]]_vars

\* after a step without attempts, RECOVER and INFECTED cells side by side
C3_Witness ==
    /\ n >= 1 /\ ret = <<n>> /\ NumAttempts = 0
    /\ {INFECTED, RECOVER} \subseteq Present

\* C4: with infect = 0 a cell that is SUSCEPTIBLE when a step begins is
\* SUSCEPTIBLE when it returns, for every draw.
C4_NoInfectionAtZero ==
    [][StepDone /\ infect = 0 =>
          \A xy \in Cells(size) : map[xy] = SUSCEPTIBLE => map'[xy] = SUSCEPTIBLE]_vars

\* the grid the 3x3 scenario expects after one step
Expected3x3 ==
    [xy \in Cells(<<3, 3>>) |->
        IF xy = Centre THEN INFECTED
        ELSE IF xy[1] = Centre[1] \/ xy[2] = Centre[2] THEN LATENT
        ELSE SUSCEPTIBLE]

\* C5: in the 3x3 scenario, after one step the four axis neighbours of the
\* centre are LATENT, the corners SUSCEPTIBLE and the centre INFECTED.
C5_Scenario == n = 1 => map = Expected3x3

\* the orders in which the cells of a list can be processed
Orders(cells) ==
    {[i \in 1..Len(cells) |-> cells[p[i]]] : p \in Permutations(1..Len(cells))}

\* C6: from the grid a phase starts with, processing the phase's cells in any
\* order, with the same draw for each cell, leaves the same grid.
C6_OrderIrrelevant ==
    /\ \A r \in RandFor(np_where(map, INFECTED)) :
          \A ord \in Orders(np_where(map, INFECTED)) :
             recover_loop(map, ord, r) = recover_phase(map, r)
    /\ \A r \in RandFor(np_where(map, LATENT)) :
          \A ord \in Orders(np_where(map, LATENT)) :
             symptom_loop(map, ord, r) = symptom_phase(map, r)
    /\ \A r \in RandFor(np_where(map, SUSCEPTIBLE)) :
          \A ord \in Orders(np_where(map, SUSCEPTIBLE)) :
             infect_loop(map, ord, r) = infect_phase(map, r)

\* C7: with moving = 0, across a step every cell keeps its state or moves to
\* the next one: no cell advances two stages in one step.
C7_OneStage ==
    [][StepDone /\ moving = 0 =>
          \A xy \in Cells(size) :
             \/ map'[xy] = map[xy]
             \/ map[xy] < RECOVER /\ map'[xy] = map[xy] + 1]_vars

\* after a step with moving = 0 and symptom = recover = 1, a cell is INFECTED
\* (it was LATENT, and was not recovered in the same step)
C7_Witness ==
    /\ n >= 1 /\ ret = <<n>> /\ moving = 0
    /\ symptom = One /\ recover = One
    /\ INFECTED \in Present

\* C8 as stated: with recover = 1 every cell INFECTED when a step begins is
\* RECOVER when it returns, whatever moving
C8_AllRecover ==
    [][StepDone /\ recover = One =>
          \A xy \in Cells(size) : map[xy] = INFECTED => map'[xy] = RECOVER]_vars

\* C8, amended: with recover = 1, across a step the RECOVER cells become as
\* many as the RECOVER and INFECTED cells were, and when exchange makes no
\* attempt every cell that was INFECTED is RECOVER.
C8_AllRecoverUnmoved ==
    [][StepDone /\ recover = One =>
          /\ Count(map', RECOVER) = Count(map, RECOVER) + Count(map, INFECTED)
          /\ NumAttempts = 0 =>
                \A xy \in Cells(size) : map[xy] = INFECTED => map'[xy] = RECOVER]_vars

\* after a step with recover = 1 and symptom = 0, a RECOVER cell beside a
\* SUSCEPTIBLE one, with no exchange attempt
C8_Witness ==
    /\ n >= 1 /\ ret = <<n>> /\ recover = One /\ symptom = 0 /\ NumAttempts = 0
    /\ {SUSCEPTIBLE, RECOVER} \subseteq Present

\* C9: with moving = 0 the grid after a step is a grid the recovery, symptom
\* and infection phases leave: no swap follows them.
C9_NoMove == [][StepDone /\ moving = 0 => map' \in TransitionResults(map)]_vars

\* after a step with moving = 0, a grid mixing three states
C9_Witness ==
    /\ n >= 1 /\ ret = <<n>> /\ moving = 0
    /\ Cardinality(Present) >= 3

\* C10: on a 1x1 grid with moving > 0 the grid after a step is a grid the
\* three phases leave: every attempt of exchange is skipped.
C10_OneCell ==
    [][StepDone /\ size = <<1, 1>> /\ moving > 0 => map' \in TransitionResults(map)]_vars

\* after a step on a 1x1 grid in which exchange made an attempt
C10_Witness ==
    /\ n >= 1 /\ ret = <<n>> /\ size = <<1, 1>>
    /\ moving > 0 /\ NumAttempts >= 1
    /\ map[<<0, 0>>] # SUSCEPTIBLE

\* C12: the grid changes only in initialize and step: a caller writing into
\* a grid it was handed by get_state or step does not change it.
C12_OnlySeedAndStep == [][map' # map => StepDone \/ (n' = n /\ ret' = <<>>)]_vars

\* C13: an initialize call whose state is none of the four is rejected and
\* leaves the grid as it was: whatever initialize is called with, the grid it
\* leaves is the grid before or one that seeding with one of the four states
\* leaves.
C13_InvalidSeedRejected ==
    [][n' = n /\ ret' = <<>> => map' \in InitializeResults(map, States)]_vars

\* C14: a simulation exists only with valid parameters: a positive width
\* and height and the four rates in [0, 1].
C14_ValidParams ==
    /\ size[1] > 0 /\ size[2] > 0
    /\ {infect, symptom, recover, moving} \subseteq 0..One

\* what seeding the grid as it is now does, for every valid state and all
\* draws; it is evaluated on the grids held before the first step, which are
\* all the grids
SeedEffect ==
    n = 0 =>
    \A state \in States, rand \in [Cells(size) -> Draws], ratio \in Ratios :
       LET g == seeded(map, ratio, state, rand)
       IN /\ ratio = 0 => g = map
          /\ \A xy \in Cells(size) :
                /\ ratio = One => g[xy] = state
                /\ g[xy] \in {map[xy], state}
                /\ g[xy] = state <=> (rand[xy] < ratio \/ map[xy] = state)

\* C15: initialize with a valid state sets the cells whose draw is below ratio
\* to the state and leaves the others: none with ratio = 0, all with ratio = 1,
\* and the cells holding the state only grow; an initialize call leaves the
\* step counter as it was and changes cells only to one state.
C15_Seed ==
    /\ []SeedEffect
    /\ [][calls' = calls /\ ret' = <<>> =>
            /\ n' = n
            /\ \E state \in States :
                  \A xy \in Cells(size) : map'[xy] \in {map[xy], state}]_vars

\* after a step, an initialize call that seeded a part of the grid
C15_Witness ==
    /\ calls >= 1 /\ ret = <<>>
    /\ Cardinality(Present) >= 2

\* the cells of the grid one step up, down, left or right of xy
InGridNeighbours(xy) ==
    {c \in Cells(size) :
        \/ c[2] = xy[2] /\ (c[1] = xy[1] - 1 \/ c[1] = xy[1] + 1)
        \/ c[1] = xy[1] /\ (c[2] = xy[2] - 1 \/ c[2] = xy[2] + 1)}

\* c comes before xy in the order the infection loop visits the cells
VisitedBefore(c, xy) == c[1] < xy[1] \/ (c[1] = xy[1] /\ c[2] < xy[2])

Target(xy, d) ==
    IF d = 0 THEN <<xy[1] - 1, xy[2]>>
    ELSE IF d = 1 THEN <<xy[1] + 1, xy[2]>>
    ELSE IF d = 2 THEN <<xy[1], xy[2] - 1>>
    ELSE <<xy[1], xy[2] + 1>>

\* the grid m with the states of the cells a and b exchanged
Swapped(m, a, b) ==
    [c \in Cells(size) |-> IF c = a THEN m[b] ELSE IF c = b THEN m[a] ELSE m[c]]

\* the grids that k attempts can leave from a grid of `grids`, when an attempt
\* does nothing or exchanges two cells one step apart
RECURSIVE AfterAttempts(_, _)
AfterAttempts(grids, k) ==
    IF k = 0 THEN grids
    ELSE AfterAttempts(
            grids \cup UNION {{Swapped(m, c, t) : m \in grids, t \in InGridNeighbours(c)} :
                                 c \in Cells(size)},
            k - 1)

\* every attempt on the grid as it is now: nothing changes when the target is
\* off the grid, else source and target exchange their states
AttemptEffect ==
    \A a \in AttemptDraws :
       LET xy == <<a[1], a[2]>>
           t == Target(xy, a[3])
           g == attempt(map, a[1], a[2], a[3])
       IN IF t \in Cells(size) THEN g = Swapped(map, xy, t) ELSE g = map

\* C17: on the grid as it is now, every attempt leaves the grid unchanged
\* (target off the grid) or exchanges the source with the in-grid cell one
\* step away in the drawn direction, all other cells unchanged; and the grids
\* the movement of a step can leave are the grids that
\* floor(moving * nx * ny) such attempts, one after the other, leave.
C17_MovementRule ==
    /\ AttemptEffect
    /\ MoveResults(map) = AfterAttempts({map}, (moving * size[1] * size[2]) \div One)

\* after a step in which exchange made two attempts, a grid of several states
C17_Witness ==
    /\ n >= 1 /\ ret = <<n>>
    /\ NumAttempts = 2
    /\ Cardinality(Present) >= 2

\* an exchange on the grid as it is now leaves as many cells in each state
MoveKeepsCounts ==
    \A g \in MoveResults(map) : \A state \in States : Count(g, state) = Count(map, state)

\* C18: across a step the number of RECOVER cells does not decrease and the
\* number of SUSCEPTIBLE cells does not increase, whatever the parameters;
\* the movement leaves the number of cells in each state as it is.
C18_Populations ==
    /\ []MoveKeepsCounts
    /\ [][StepDone =>
            /\ Count(map', RECOVER) >= Count(map, RECOVER)
            /\ Count(map', SUSCEPTIBLE) <= Count(map, SUSCEPTIBLE)]_vars

\* after a step with exchange attempts, RECOVER, LATENT and SUSCEPTIBLE cells
C18_Witness ==
    /\ n >= 1 /\ ret = <<n>> /\ NumAttempts >= 1
    /\ {SUSCEPTIBLE, LATENT, RECOVER} \subseteq Present

\* every cell is SUSCEPTIBLE
AllSusceptible == \A xy \in Cells(size) : map[xy] = SUSCEPTIBLE

\* C19: a step on a grid whose cells are all SUSCEPTIBLE leaves them all
\* SUSCEPTIBLE, whatever the parameters and the draws.
C19_DiseaseFree == [][StepDone /\ AllSusceptible => AllSusceptible']_vars

\* after two steps with infect = 1 and exchange attempts, never seeded: all
\* cells are SUSCEPTIBLE
C19_Witness ==
    /\ n = 2 /\ ret = <<2>> /\ infect = One /\ NumAttempts >= 1
    /\ AllSusceptible

\* every cell is RECOVER
AllRecovered == \A xy \in Cells(size) : map[xy] = RECOVER

====
